---- MODULE Spec2Model ----
(***************************************************************************)
(* A model of maxlloc.h: an allocator that maps one fresh region per       *)
(* request (mmap) and unmaps it on release (munmap), with the total mapped *)
(* size stored in a header word right before the payload.                  *)
(*                                                                         *)
(* The machine is scaled down so that the whole range of size_t can be     *)
(* enumerated: a byte holds ByteRadix values, size_t is HeaderSize bytes   *)
(* wide (so arithmetic on it is modulo WordMod = ByteRadix^HeaderSize),    *)
(* and a page is getpagesize bytes. Page 0 holds the NULL address and is     *)
(* never mapped; the operating system has NumPages further pages to give.  *)
(***************************************************************************)
EXTENDS Integers, Sequences, FiniteSets

\* ------------------------------------------------------------ the machine

\* values one byte of memory can hold (a scaled CHAR_BIT)
ByteRadix == 4

\* sizeof(MaxllocHeader) = sizeof(size_t), in bytes
HeaderSize == 2

\* getpagesize(): a power of two
getpagesize == 4

\* pages the operating system can hand out (pages 1..NumPages)
NumPages == 3

\* largest count / element size passed to calloc
MaxCallocArg == 5

NULL == 0

MAP_FAILED == -1

RECURSIVE Pow(_, _)
Pow(b, n) == IF n = 0 THEN 1 ELSE b * Pow(b, n - 1)

\* size_t arithmetic is modulo WordMod
WordMod == Pow(ByteRadix, HeaderSize)

SizeT == 0 .. (WordMod - 1)

Pages == 1 .. NumPages

Addr == getpagesize .. ((NumPages + 1) * getpagesize - 1)

PageOf(a) == a \div getpagesize

\* bitwise operators on size_t
RECURSIVE BitAnd(_, _)
BitAnd(a, b) ==
    IF a = 0 \/ b = 0 THEN 0
    ELSE (a % 2) * (b % 2) + 2 * BitAnd(a \div 2, b \div 2)

BitNot(a) == (WordMod - 1) - a

\* ------------------------------------------------------------ size rounder

\* the rounding without room for the header
round_up_NoHeader(size) ==
    LET page_size == getpagesize - 1
        s2 == (size + page_size) % WordMod
    IN  BitAnd(s2, BitNot(page_size))

maxlloc_round_up_to_page_size(size) ==
    LET page_size == getpagesize - 1
        s1 == (size + HeaderSize) % WordMod
        s2 == (s1 + page_size) % WordMod
    IN  BitAnd(s2, BitNot(page_size))

\* ------------------------------------------------------------ header codec

\* header->block_size = v, the header being at address a: the word is laid
\* out over the HeaderSize bytes at a, least significant byte first
StoreBlockSize(m, a, v) ==
    [x \in DOMAIN m |->
        IF x >= a /\ x < a + HeaderSize
        THEN (v \div Pow(ByteRadix, x - a)) % ByteRadix
        ELSE m[x]]

RECURSIVE LoadWord(_, _, _)
LoadWord(m, a, n) ==
    IF n = 0 THEN 0 ELSE m[a] + ByteRadix * LoadWord(m, a + 1, n - 1)

\* ((MaxllocHeader *)ptr - 1)->block_size
LoadBlockSize(m, ptr) == LoadWord(m, ptr - HeaderSize, HeaderSize)

\* ------------------------------------------------------------ the OS

OsCall(fn, addr, len, res) == [fn |-> fn, addr |-> addr, len |-> len, res |-> res]

\* mmap(NULL, len, PROT_READ|PROT_WRITE, MAP_PRIVATE|MAP_ANONYMOUS, -1, 0):
\* the addresses it may return.  A length of 0 is refused (EINVAL); any
\* request may be refused; a granted one is a run of unmapped pages.
MmapResults(mapped, len) ==
    LET n == (len + getpagesize - 1) \div getpagesize
        fits == {b \in Pages :
                    /\ b + n - 1 <= NumPages
                    /\ \A q \in b .. (b + n - 1) : q \notin mapped}
    IN  {MAP_FAILED} \cup
        (IF len = 0 THEN {} ELSE {b * getpagesize : b \in fits})

MmapPages(base, len) ==
    {q \in Pages : q * getpagesize >= base /\ q * getpagesize < base + len}

\* a fresh anonymous mapping is zero-filled
ZeroPages(m, ps) == [x \in DOMAIN m |-> IF PageOf(x) \in ps THEN 0 ELSE m[x]]

\* munmap(addr, len): refused (and the refusal ignored) when len is 0 or
\* addr is not page-aligned
MunmapOk(addr, len) == len > 0 /\ addr % getpagesize = 0

MunmapPages(addr, len) ==
    IF MunmapOk(addr, len) THEN MmapPages(addr, len) ELSE {}

\* ------------------------------------------------------------ the allocator
\* Each entry point maps a heap h = [mapped, mem] and its arguments to the
\* set of outcomes [mapped, mem, ret, calls, crashed] the call can have:
\* one per answer of the operating system.

Outcome(mapped, m, ret, calls, crashed) ==
    [mapped |-> mapped, mem |-> m, ret |-> ret, calls |-> calls, crashed |-> crashed]

\* maxlloc from the mmap call on: map sz bytes, store sz in the header
MaxllocMap(h, sz) ==
    {IF header = MAP_FAILED
     THEN Outcome(h.mapped, h.mem, NULL,
                  << OsCall("mmap", NULL, sz, MAP_FAILED) >>, FALSE)
     ELSE Outcome(h.mapped \cup MmapPages(header, sz),
                  StoreBlockSize(ZeroPages(h.mem, MmapPages(header, sz)), header, sz),
                  header + HeaderSize,
                  << OsCall("mmap", NULL, sz, header) >>, FALSE)
     : header \in MmapResults(h.mapped, sz)}

\* maxlloc without the size == 0 test
maxlloc_NoZeroCheck(h, size) == MaxllocMap(h, maxlloc_round_up_to_page_size(size))

maxlloc(h, size) ==
    IF size = 0
    THEN {Outcome(h.mapped, h.mem, NULL, << >>, FALSE)}
    ELSE MaxllocMap(h, maxlloc_round_up_to_page_size(size))

\* free that unmaps one page whatever the block's size
free_UnmapsOnePage(h, ptr) ==
    IF ptr = NULL
    THEN Outcome(h.mapped, h.mem, NULL, << >>, FALSE)
    ELSE LET header == ptr - HeaderSize
             gone == MunmapPages(header, getpagesize)
         IN  Outcome(h.mapped \ gone, ZeroPages(h.mem, gone), NULL,
                     << OsCall("munmap", header, getpagesize, 0) >>, FALSE)

free(h, ptr) ==
    IF ptr = NULL
    THEN Outcome(h.mapped, h.mem, NULL, << >>, FALSE)
    ELSE LET header == ptr - HeaderSize
             len == LoadBlockSize(h.mem, ptr)
             gone == MunmapPages(header, len)
         IN  Outcome(h.mapped \ gone, ZeroPages(h.mem, gone), NULL,
                     << OsCall("munmap", header, len, 0) >>, FALSE)

\* memset(ptr, 0, n): a store to an address that is not mapped ends the
\* process (SIGSEGV)
MemsetFaults(mapped, ptr, n) ==
    \E x \in ptr .. (ptr + n - 1) : x \notin Addr \/ PageOf(x) \notin mapped

Memset0(m, ptr, n) ==
    [x \in DOMAIN m |-> IF x >= ptr /\ x < ptr + n THEN 0 ELSE m[x]]

calloc(h, count, size) ==
    LET total_size == (count * size) % WordMod
    IN  {IF o.ret = NULL THEN o
         ELSE IF MemsetFaults(o.mapped, o.ret, total_size)
              THEN Outcome(o.mapped, o.mem, o.ret, o.calls, TRUE)
              ELSE Outcome(o.mapped, Memset0(o.mem, o.ret, total_size), o.ret, o.calls, FALSE)
         : o \in maxlloc(h, total_size)}

\* memcpy(dst, src, n)
Memcpy(m, dst, src, n) ==
    [x \in DOMAIN m |-> IF x >= dst /\ x < dst + n THEN m[src + (x - dst)] ELSE m[x]]

\* realloc with size == 0 returning NULL and leaving ptr mapped
ReallocZero_NoFree(h, ptr) == Outcome(h.mapped, h.mem, NULL, << >>, FALSE)

\* realloc, size == 0: free(ptr); return NULL
ReallocZero(h, ptr) == free(h, ptr)

\* the test with < for <=
ReallocFits_Strict(new_size, old_size) == new_size < old_size

\* realloc: the block is kept when new_size <= old_size
ReallocFits(new_size, old_size) == new_size <= old_size

\* realloc releasing the old block when the new mapping is refused
ReallocFailed_FreesOld(h, ptr, new_size) ==
    LET f == free(h, ptr)
    IN  Outcome(f.mapped, f.mem, NULL,
                << OsCall("mmap", NULL, new_size, MAP_FAILED) >> \o f.calls, FALSE)

\* realloc, new_header == MAP_FAILED: return NULL, ptr not touched
ReallocFailed(h, ptr, new_size) ==
    Outcome(h.mapped, h.mem, NULL, << OsCall("mmap", NULL, new_size, MAP_FAILED) >>, FALSE)

\* the copy taken from the old header instead of the old payload
ReallocMoved_CopyFromHeader(h, ptr, old_size, new_size, new_header) ==
    LET got == MmapPages(new_header, new_size)
        m1 == ZeroPages(h.mem, got)
        m2 == Memcpy(m1, new_header + HeaderSize, ptr - HeaderSize, old_size - HeaderSize)
        m3 == StoreBlockSize(m2, new_header, new_size)
        f == free([mapped |-> h.mapped \cup got, mem |-> m3], ptr)
    IN  Outcome(f.mapped, f.mem, new_header + HeaderSize,
                << OsCall("mmap", NULL, new_size, new_header) >> \o f.calls, FALSE)

\* the new header given the old block's size
ReallocMoved_KeepsOldSize(h, ptr, old_size, new_size, new_header) ==
    LET got == MmapPages(new_header, new_size)
        m1 == ZeroPages(h.mem, got)
        m2 == Memcpy(m1, new_header + HeaderSize, ptr, old_size - HeaderSize)
        m3 == StoreBlockSize(m2, new_header, old_size)
        f == free([mapped |-> h.mapped \cup got, mem |-> m3], ptr)
    IN  Outcome(f.mapped, f.mem, new_header + HeaderSize,
                << OsCall("mmap", NULL, new_size, new_header) >> \o f.calls, FALSE)

\* realloc, the new mapping granted at new_header: copy, store the size,
\* free the old block
ReallocMoved(h, ptr, old_size, new_size, new_header) ==
    LET got == MmapPages(new_header, new_size)
        m1 == ZeroPages(h.mem, got)
        m2 == Memcpy(m1, new_header + HeaderSize, ptr, old_size - HeaderSize)
        m3 == StoreBlockSize(m2, new_header, new_size)
        f == free([mapped |-> h.mapped \cup got, mem |-> m3], ptr)
    IN  Outcome(f.mapped, f.mem, new_header + HeaderSize,
                << OsCall("mmap", NULL, new_size, new_header) >> \o f.calls, FALSE)

realloc(h, ptr, size) ==
    IF size = 0
    THEN {ReallocZero(h, ptr)}
    ELSE IF ptr = NULL
    THEN maxlloc(h, size)
    ELSE LET old_size == LoadBlockSize(h.mem, ptr)
             new_size == maxlloc_round_up_to_page_size(size)
         IN  IF ReallocFits(new_size, old_size)
             THEN {Outcome(h.mapped, h.mem, ptr, << >>, FALSE)}
             ELSE {IF new_header = MAP_FAILED
                   THEN ReallocFailed(h, ptr, new_size)
                   ELSE ReallocMoved(h, ptr, old_size, new_size, new_header)
                   : new_header \in MmapResults(h.mapped, new_size)}

\* ------------------------------------------------------------ the program

VARIABLES
    mapped,     \* pages currently mapped
    mem,        \* the bytes of memory (0 where nothing is mapped)
    live,       \* pointers returned to the caller and not yet released
    crashed,    \* the process was ended by a fault
    last,       \* the call just made: op, pointer passed, result, OS calls
    args        \* the sizes passed to that call, where they are recorded

vars == << mapped, mem, live, crashed, last, args >>

Heap == [mapped |-> mapped, mem |-> mem]

Call(op, ptr, ret, calls) ==
    [op |-> op, ptr |-> ptr, ret |-> ret, calls |-> calls]

NoArgs == [count |-> 0, size |-> 0]

\* Spec leaves the sizes of the last call out of the state; SpecArgs keeps
\* them (rec = TRUE), for the properties that read them
Args(rec, count, size) == IF rec THEN [count |-> count, size |-> size] ELSE NoArgs

Init ==
    /\ mapped = {}
    /\ mem = [x \in Addr |-> 0]
    /\ live = {}
    /\ crashed = FALSE
    /\ last = Call("none", NULL, NULL, << >>)
    /\ args = NoArgs

Apply(o) ==
    /\ mapped' = o.mapped
    /\ mem' = o.mem
    /\ crashed' = o.crashed

\* what the caller holds after realloc(ptr, size) returned ret: still ptr
\* when the call failed (NULL for a size > 0), else ret in place of ptr
HeldAfterRealloc(held, ptr, size, ret) ==
    IF size > 0 /\ ret = NULL
    THEN held
    ELSE (held \ {ptr}) \cup ({ret} \ {NULL})

DoMaxlloc(rec) ==
    /\ ~crashed
    /\ \E size \in SizeT : \E o \in maxlloc(Heap, size) :
          /\ Apply(o)
          /\ live' = live \cup ({o.ret} \ {NULL})
          /\ last' = Call("maxlloc", NULL, o.ret, o.calls)
          /\ args' = Args(rec, 0, size)

DoFree(rec) ==
    /\ ~crashed
    /\ \E ptr \in live \cup {NULL} :
          LET o == free(Heap, ptr)
          IN  /\ Apply(o)
              /\ live' = live \ {ptr}
              /\ last' = Call("free", ptr, NULL, o.calls)
              /\ args' = Args(rec, 0, 0)

DoCalloc(rec) ==
    /\ ~crashed
    /\ \E count \in 0 .. MaxCallocArg, size \in 0 .. MaxCallocArg :
          \E o \in calloc(Heap, count, size) :
             /\ Apply(o)
             /\ live' = live \cup ({o.ret} \ {NULL})
             /\ last' = Call("calloc", NULL, o.ret, o.calls)
             /\ args' = Args(rec, count, size)

DoRealloc(rec) ==
    /\ ~crashed
    /\ \E ptr \in live \cup {NULL}, size \in SizeT :
          \E o \in realloc(Heap, ptr, size) :
             /\ Apply(o)
             /\ live' = HeldAfterRealloc(live, ptr, size, o.ret)
             /\ last' = Call("realloc", ptr, o.ret, o.calls)
             /\ args' = Args(rec, 0, size)

\* the caller fills the payload of a block it holds with a pattern that
\* differs from byte to byte and is nowhere 0
Pattern(i) == (i % (ByteRadix - 1)) + 1

DoStore(rec) ==
    /\ ~crashed
    /\ \E ptr \in live :
          LET cap == LoadBlockSize(mem, ptr) - HeaderSize
          IN  /\ mem' = [x \in Addr |->
                            IF x >= ptr /\ x < ptr + cap THEN Pattern(x - ptr) ELSE mem[x]]
              /\ last' = Call("store", ptr, NULL, << >>)
    /\ args' = Args(rec, 0, 0)
    /\ UNCHANGED << mapped, live, crashed >>

Step(rec) == DoMaxlloc(rec) \/ DoFree(rec) \/ DoCalloc(rec) \/ DoRealloc(rec) \/ DoStore(rec)

Next == Step(FALSE)

Spec == Init /\ [][Next]_vars

NextArgs == Step(TRUE)

SpecArgs == Init /\ [][NextArgs]_vars

\* ------------------------------------------------------------ properties
\* A property of a call is stated over every call the caller may make in
\* the current state and every outcome the operating system allows it.

Held == live \cup {NULL}

Positive == SizeT \ {0}

\* the mmap call of an outcome was refused / granted
Denied(o) == o.calls # << >> /\ o.calls[1].fn = "mmap" /\ o.calls[1].res = MAP_FAILED

Granted(o) == o.calls # << >> /\ o.calls[1].fn = "mmap" /\ o.calls[1].res # MAP_FAILED

\* the pages of the len bytes from address base on
PagesOf(base, len) ==
    {q \in Pages : q * getpagesize + getpagesize > base /\ q * getpagesize < base + len}

\* the pages of the block behind ptr, by its header
BlockPages(m, ptr) == PagesOf(ptr - HeaderSize, LoadBlockSize(m, ptr))

\* the smallest multiple of the page size that is >= n
SmallestPageMultiple(n) == ((n + getpagesize - 1) \div getpagesize) * getpagesize

NoOverflow(s) == s + HeaderSize + getpagesize - 1 < WordMod

\* C1: for every positive size s, a non-null result of Allocate(s) or of
\* Resize(p, s) is a block whose total_size minus the header size is >= s.
C1_CapacityCoversRequest ==
    (~crashed /\ last.op \in {"maxlloc", "realloc"} /\ args.size > 0 /\ last.ret # NULL) =>
       LoadBlockSize(mem, last.ret) - HeaderSize >= args.size

\* C2: for every size s (0 included) whose rounding does not overflow, the
\* Size Rounder returns the smallest multiple of the page size >= s + header
\* size (one page for sizes 1 and page - header, two pages for one byte
\* more), and that is exactly the length Allocate(s) asks to be mapped and,
\* when granted, the length it gets mapped.
C2_RoundsToSmallestPageMultiple ==
    /\ \A s \in SizeT : NoOverflow(s) =>
          LET r == maxlloc_round_up_to_page_size(s)
          IN  /\ r % getpagesize = 0
              /\ r >= s + HeaderSize
              /\ r - getpagesize < s + HeaderSize
    /\ maxlloc_round_up_to_page_size(1) = getpagesize
    /\ maxlloc_round_up_to_page_size(getpagesize - HeaderSize) = getpagesize
    /\ maxlloc_round_up_to_page_size(getpagesize - HeaderSize + 1) = 2 * getpagesize
    /\ \A s \in Positive : NoOverflow(s) => \A o \in maxlloc(Heap, s) :
          /\ Len(o.calls) = 1
          /\ o.calls[1].fn = "mmap"
          /\ o.calls[1].len = SmallestPageMultiple(s + HeaderSize)
          /\ Granted(o) =>
                /\ o.mapped \ mapped = PagesOf(o.calls[1].res, SmallestPageMultiple(s + HeaderSize))
                /\ Cardinality(o.mapped \ mapped) * getpagesize
                      = SmallestPageMultiple(s + HeaderSize)

C2_Witness ==
    /\ last.op = "maxlloc"
    /\ last.ret # NULL
    /\ last.calls[1].len = 2 * getpagesize
    /\ Cardinality(mapped) >= 2

\* C3: when Resize(p, s) with p live and s > 0 needs a larger mapping and
\* the operating system refuses it, Resize returns null, p's block stays
\* mapped with its header and payload unchanged, no other mapping exists
\* than before, and the caller still holds p.
C3_FailedResizeLeavesOldBlock ==
    \A p \in live : \A s \in Positive :
       maxlloc_round_up_to_page_size(s) > LoadBlockSize(mem, p) =>
          /\ \E o \in realloc(Heap, p, s) : Denied(o)
          /\ \A o \in realloc(Heap, p, s) : Denied(o) =>
                /\ o.ret = NULL
                /\ o.mapped = mapped
                /\ o.mem = mem
                /\ Len(o.calls) = 1
                /\ ~o.crashed
                /\ HeldAfterRealloc(live, p, s, o.ret) = live

C3_Witness ==
    /\ last.op = "realloc"
    /\ last.ptr # NULL
    /\ last.ret = NULL
    /\ Denied(last)
    /\ last.ptr \in live
    /\ PageOf(last.ptr) \in mapped
    /\ mem[last.ptr] # 0

\* C4: when Resize(p, s) with p live rounds s to more than the old total
\* size and the mapping is granted, the result is a pointer other than p,
\* the new header holds the new total size, the first old_total_size -
\* header size payload bytes are those of the old block, and the old block
\* is unmapped with exactly its old total size.
C4_GrowingResizeMovesBlock ==
    \A p \in live : \A s \in Positive :
       LET old_size == LoadBlockSize(mem, p)
           new_size == maxlloc_round_up_to_page_size(s)
       IN  new_size > old_size => \A o \in realloc(Heap, p, s) : Granted(o) =>
              /\ o.ret # NULL
              /\ o.ret # p
              /\ LoadBlockSize(o.mem, o.ret) = new_size
              /\ \A i \in 0 .. (old_size - HeaderSize - 1) : o.mem[o.ret + i] = mem[p + i]
              /\ o.calls = << OsCall("mmap", NULL, new_size, o.ret - HeaderSize),
                              OsCall("munmap", p - HeaderSize, old_size, 0) >>
              /\ PagesOf(p - HeaderSize, old_size) \cap o.mapped = {}
              /\ o.mapped = (mapped \ PagesOf(p - HeaderSize, old_size))
                               \cup PagesOf(o.ret - HeaderSize, new_size)
              /\ ~o.crashed

C4_Witness ==
    /\ last.op = "realloc"
    /\ last.ptr # NULL
    /\ Len(last.calls) = 2
    /\ last.ret # NULL
    /\ last.ret # last.ptr
    /\ mem[last.ret] # 0

\* C5: when Resize(p, s) with p live and s > 0 rounds s to no more than the
\* block's stored total size, Resize returns p, maps and unmaps nothing, and
\* leaves the header and every payload byte as they were.
C5_FittingResizeKeepsBlock ==
    \A p \in live : \A s \in Positive :
       maxlloc_round_up_to_page_size(s) <= LoadBlockSize(mem, p) =>
          \A o \in realloc(Heap, p, s) :
             /\ o.ret = p
             /\ o.calls = << >>
             /\ o.mapped = mapped
             /\ o.mem = mem
             /\ ~o.crashed

C5_Witness ==
    /\ last.op = "realloc"
    /\ last.ptr # NULL
    /\ last.ret = last.ptr
    /\ last.calls = << >>
    /\ last.ret \in live
    /\ mem[last.ret] # 0

\* C6: ZeroAllocate(count, element_size) fails, mapping nothing, when the
\* product count * element_size does not fit in size_t.
C6_CallocRejectsOverflow ==
    (last.op = "calloc" /\ args.count * args.size >= WordMod) =>
       last.ret = NULL /\ ~Granted(last)

\* C7: Resize(p, 0) returns null and does to the mapped regions what
\* Release(p) does (nothing for p = null, else p's block unmapped);
\* Resize(null, s) for s > 0 has the outcomes of Allocate(s), answer of the
\* operating system for answer.
C7_ResizeDegenerateCases ==
    /\ \A p \in Held : \A o \in realloc(Heap, p, 0) :
          /\ o.ret = NULL
          /\ o.mapped = free(Heap, p).mapped
          /\ o.mem = free(Heap, p).mem
          /\ o.calls = free(Heap, p).calls
          /\ p = NULL => o.mapped = mapped /\ o.mem = mem /\ o.calls = << >>
          /\ p # NULL =>
                /\ o.mapped = mapped \ BlockPages(mem, p)
                /\ o.calls = << OsCall("munmap", p - HeaderSize, LoadBlockSize(mem, p), 0) >>
    /\ \A s \in Positive : realloc(Heap, NULL, s) = maxlloc(Heap, s)

C7_Witness ==
    /\ last.op = "realloc"
    /\ last.ptr # NULL
    /\ last.ret = NULL
    /\ Len(last.calls) = 1
    /\ last.calls[1].fn = "munmap"
    /\ last.ptr \notin live
    /\ live # {}

\* C8: Allocate returns null exactly when the size is 0 or the operating
\* system refuses the mapping; Allocate(0) asks for no mapping; a null
\* result leaves the mapped regions as they were.
C8_AllocateNullCases ==
    \A s \in SizeT : \A o \in maxlloc(Heap, s) :
       /\ o.ret = NULL <=> (s = 0 \/ Denied(o))
       /\ s = 0 => o.calls = << >>
       /\ o.ret = NULL => o.mapped = mapped /\ o.mem = mem

C8_Witness ==
    /\ last.op = "maxlloc"
    /\ last.ret = NULL
    /\ Denied(last)
    /\ last.calls[1].len > 0
    /\ mapped # {}

\* C9: in every state of the running process, each live block's header
\* total_size is a positive multiple of the page size, >= the header size,
\* and the length mapped for the block: the length asked of mmap when the
\* block was made, covering pages that are all mapped.
C9_HeaderIsMappedLength ==
    ~crashed =>
       /\ \A p \in live :
             LET sz == LoadBlockSize(mem, p)
             IN  /\ sz > 0
                 /\ sz % getpagesize = 0
                 /\ sz >= HeaderSize
                 /\ (p - HeaderSize) % getpagesize = 0
                 /\ BlockPages(mem, p) \subseteq mapped
                 /\ Cardinality(BlockPages(mem, p)) * getpagesize = sz
       /\ (last.op \in {"maxlloc", "calloc", "realloc"} /\ Granted(last)) =>
             /\ last.ret = last.calls[1].res + HeaderSize
             /\ last.ret \in live
             /\ LoadBlockSize(mem, last.ret) = last.calls[1].len

C9_Witness ==
    /\ ~crashed
    /\ last.op = "realloc"
    /\ Len(last.calls) = 2
    /\ last.ret \in live
    /\ LoadBlockSize(mem, last.ret) = 2 * getpagesize

\* C10: in every state of the running process, the mapped pages are exactly
\* the pages of the blocks behind the live pointers, no page belonging to
\* two of them; and Release(p) unmaps exactly p's total_size bytes from its
\* header address on, leaving the other blocks mapped.
C10_MappedIsLiveBlocks ==
    ~crashed =>
       /\ mapped = UNION {BlockPages(mem, p) : p \in live}
       /\ \A p \in live : \A q \in live :
             p # q => BlockPages(mem, p) \cap BlockPages(mem, q) = {}
       /\ \A p \in live :
             LET o == free(Heap, p)
             IN  /\ o.calls = << OsCall("munmap", p - HeaderSize, LoadBlockSize(mem, p), 0) >>
                 /\ o.mapped = UNION {BlockPages(mem, q) : q \in live \ {p}}

C10_Witness ==
    /\ ~crashed
    /\ last.op = "free"
    /\ last.ptr # NULL
    /\ Len(last.calls) = 1
    /\ last.calls[1].len = 2 * getpagesize
    /\ live # {}

====
